---- MODULE Spec2Model ----
(***************************************************************************)
(* Model of emulate/usb_host.py: the USB host harness of the ASM2464PD     *)
(* emulator.  USBHost injects a control transfer or a vendor command by    *)
(* writing MMIO registers and shared memory, drives emu.step() until the   *)
(* firmware clears the pending flags or the cycle budget is used up, and   *)
(* reads the response from the output region at XDATA 0x8000.              *)
(* ThreadedUSBHost runs the emulator in a background thread and serves     *)
(* commands from a command queue, answering on a response queue.           *)
(***************************************************************************)
EXTENDS Integers, Sequences, FiniteSets, TLC

\* ------------------------------------------------------------------ bounds

\* hw.cycles is unbounded in the program; the synchronous facade's steps stop
\* at MaxCycles, the worker threads' at MaxThreadCycles.
MaxCycles == 4
MaxThreadCycles == 3
\* Largest number of cycles one emu.step() may add to hw.cycles.
MaxInc == 2
\* Number of threads start() may spawn in one run.
MaxWorkers == 2
\* Number of caller threads of a ThreadedUSBHost.
NCallers == 2
\* Number of commands the callers submit in one run.
MaxCmds == 2
\* Number of operations issued on the synchronous facade in one run.
MaxOps == 2

\* ------------------------------------------------------- program constants

USB_DATA_BUFFER == \h8000
\* min(wLength, 256): the output region's capacity.
OutCap == 256
\* The threaded facade's default cycle budget (cmd.get('timeout', 500000)) and
\* the synchronous one's (timeout_cycles) are far above MaxCycles; the budgets
\* of a run are drawn from Budgets.
E4 == \hE4
E5 == \hE5

Byte == 0..255
\* No transfer, no command: Python's None.
None == [kind |-> "none"]

\* ------------------------------------------------------------- arithmetic

Min(a, b) == IF a < b THEN a ELSE b
Lo(x) == x % 256
Hi(x) == (x \div 256) % 256
\* x & 0x60, x & 0x80
And60(x) == ((x \div 32) % 4) * 32
And80(x) == ((x \div 128) % 2) * 128

\* --------------------------------------------------------- address spaces

\* The registers the harness writes.
RegAddrs ==
    (\h9E00..\h9E07) \cup (\h910D..\h9112) \cup
    {\h9000, \hC802, \h9101, \h9301, \h91D1, \h9118, \h92F8, \h9002, \h9091,
     \hE712, \hCC11, \hB480, \hCEB2, \hCEB3, \hCEB0, \hB432, \hE765}

\* Length of the modelled part of the output region: beyond its capacity.
OutLen == OutCap + 2
OutAddrs == USB_DATA_BUFFER..(USB_DATA_BUFFER + OutLen - 1)

\* The XDATA bytes inject_vendor_command writes.
VCXAddrs ==
    (\h0002..\h0007) \cup
    {\h07EC, \h05A5, \h05A3, \h05B1, \h05D3, \h0AF7, \h053F}

\* The addresses of the vendor writes and reads of a round trip: one the
\* harness never writes, one among those its injection writes.
RTAddrs == {\h0100, \h05A5}

\* The XDATA bytes the harness reads or writes.
XAddrs == OutAddrs \cup VCXAddrs \cup {\h07E1} \cup RTAddrs

\* --------------------------------------------------------------- commands

\* USBControlTransfer (data is carried but never read by the harness).
Transfer(rt, rq, v, i, l) ==
    [kind |-> "control_transfer", bmRequestType |-> rt, bRequest |-> rq,
     wValue |-> v, wIndex |-> i, wLength |-> l]

\* The dict ThreadedUSBHost.vendor_command queues; USBHost.e4_read and
\* e5_write call inject_vendor_command with the same four values.
Vendor(c, a, v, s) ==
    [kind |-> "vendor_command", cmd |-> c, addr |-> a, value |-> v, size |-> s]

is_in_transfer(t) == And80(t.bmRequestType) # 0

to_setup_packet(t) ==
    << t.bmRequestType, t.bRequest, Lo(t.wValue), Hi(t.wValue),
       Lo(t.wIndex), Hi(t.wIndex), Lo(t.wLength), Hi(t.wLength) >>

\* a | b on naturals.
RECURSIVE BitOr(_, _)
BitOr(a, b) ==
    IF a = 0 THEN b
    ELSE IF b = 0 THEN a
    ELSE (IF a % 2 = 1 \/ b % 2 = 1 THEN 1 ELSE 0)
         + 2 * BitOr(a \div 2, b \div 2)

\* USBRequest.GET_DESCRIPTOR
GET_DESCRIPTOR == 6

\* Variant of get_descriptor with the descriptor type in the low byte of
\* wValue and the index in the high byte.
get_descriptorSwapped(desc_type, desc_index, length) ==
    Transfer(\h80, GET_DESCRIPTOR, BitOr(desc_index * 256, desc_type), 0,
             length)

\* The transfer get_descriptor (of either facade) hands to control_transfer:
\* wValue = (desc_type << 8) | desc_index.
get_descriptor(desc_type, desc_index, length) ==
    Transfer(\h80, GET_DESCRIPTOR, BitOr(desc_type * 256, desc_index), 0,
             length)

\* ------------------------------------------------------------------ state

VARIABLES
    hw,          \* emulator.hw: cycles, flags, side-channel fields
    regs,        \* hw.regs, on RegAddrs
    xdata,       \* memory.xdata, on XAddrs
    idata6A,     \* memory.idata[0x6A]
    ep0_buf,     \* hw.usb_ep0_buf[0..7]
    ep_data_buf, \* hw.usb_ep_data_buf[0..5]
    sync,        \* the synchronous facade and its caller
    thr,         \* ThreadedUSBHost: _running, _thread, the controller's position
    workers,     \* the threads start() has spawned
    cmdQ,        \* _command_queue
    respQ,       \* _response_queue
    callers      \* the caller threads of the threaded facade

hwvars == << hw, regs, xdata, idata6A, ep0_buf, ep_data_buf >>
thrvars == << thr, workers, cmdQ, respQ, callers >>
vars == << hw, regs, xdata, idata6A, ep0_buf, ep_data_buf, sync,
           thr, workers, cmdQ, respQ, callers >>

\* Writes w (a function on some addresses) applied over f.
Written(f, w) == [a \in DOMAIN f |-> IF a \in DOMAIN w THEN w[a] ELSE f[a]]

\* ------------------------------------------------------------- injection

\* Variant of the clearing loop that zeroes 256 bytes whatever wLength is.
ClearOutWhole(x, t) ==
    [a \in DOMAIN x |->
        IF a >= USB_DATA_BUFFER /\ a < USB_DATA_BUFFER + OutCap
        THEN 0 ELSE x[a]]

\* for i in range(min(wLength, 256)): xdata[0x8000 + i] = 0
ClearOut(x, t) ==
    [a \in DOMAIN x |->
        IF a >= USB_DATA_BUFFER /\ a < USB_DATA_BUFFER + Min(t.wLength, OutCap)
        THEN 0 ELSE x[a]]

\* Variant that stages a class request as a vendor request.
CTRegsClassAsVendor(r, t) ==
    LET setup == to_setup_packet(t)
        rtype == And60(t.bmRequestType)
        r1 == [a \in DOMAIN r |->
                  IF a \in \h9E00..\h9E07 THEN setup[a - \h9E00 + 1] ELSE r[a]]
        r2 == Written(r1, (\h9000 :> \h81) @@ (\hC802 :> 1))
        r3 == IF rtype = 0
              THEN Written(r2, (\h9101 :> \h0B) @@ (\h9301 :> \h40))
              ELSE Written(r2, (\h9101 :> \h21))
    IN  Written(r3, (\h91D1 :> 8) @@ (\h9118 :> 1) @@ (\h92F8 :> \h0C) @@
                    (\h9002 :> 0) @@ (\h9091 :> 2) @@ (\hE712 :> 1) @@
                    (\hCC11 :> 2) @@ (\hB480 :> 3))

\* The registers inject_control_transfer writes, later writes last.
CTRegs(r, t) ==
    LET setup == to_setup_packet(t)
        rtype == And60(t.bmRequestType)
        r1 == [a \in DOMAIN r |->
                  IF a \in \h9E00..\h9E07 THEN setup[a - \h9E00 + 1] ELSE r[a]]
        r2 == Written(r1, (\h9000 :> \h81) @@ (\hC802 :> 1))
        r3 == IF rtype = 0 \/ rtype = \h20
              THEN Written(r2, (\h9101 :> \h0B) @@ (\h9301 :> \h40))
              ELSE Written(r2, (\h9101 :> \h21))
    IN  Written(r3, (\h91D1 :> 8) @@ (\h9118 :> 1) @@ (\h92F8 :> \h0C) @@
                    (\h9002 :> 0) @@ (\h9091 :> 2) @@ (\hE712 :> 1) @@
                    (\hCC11 :> 2) @@ (\hB480 :> 3))

CTXdata(x, t) ==
    Written(ClearOut(x, t),
            (\h0AF7 :> 1) @@ (\h053F :> 1) @@ (\h05A3 :> 0) @@
            (\h05B1 :> 3) @@ (\h07E1 :> 5))

\* Variant that does not raise the USB interrupt.
CTHwNoInterrupt(h) ==
    [h EXCEPT !.usb_control_transfer_active = TRUE,
              !.usb_92c2_read_count = 0,
              !.usb_ce89_read_count = 0,
              !.usb_cmd_pending = TRUE]

CTHw(h) ==
    [h EXCEPT !.usb_control_transfer_active = TRUE,
              !.usb_92c2_read_count = 0,
              !.usb_ce89_read_count = 0,
              !.usb_cmd_pending = TRUE,
              !.pending_usb_interrupt = TRUE]

\* Variant that copies only the first six setup bytes to the ep0 buffer.
CTEp0Six(b, t) ==
    LET setup == to_setup_packet(t)
    IN  [i \in DOMAIN b |-> IF i < 6 THEN setup[i + 1] ELSE b[i]]

CTEp0(b, t) ==
    LET setup == to_setup_packet(t) IN [i \in DOMAIN b |-> setup[i + 1]]

\* USBHost.inject_control_transfer, on the emulator's state.
inject_control_transfer(t) ==
    /\ hw' = CTHw(hw)
    /\ regs' = CTRegs(regs, t)
    /\ xdata' = CTXdata(xdata, t)
    /\ idata6A' = 5
    /\ ep0_buf' = CTEp0(ep0_buf, t)
    /\ UNCHANGED ep_data_buf

\* Variant of usb_addr that keeps bit 17 of the address.
usb_addrWide(a) == (a % \h40000) + \h500000

\* usb_addr and the 6-byte CDB of inject_vendor_command.
usb_addr(a) == (a % \h20000) + \h500000

cdb(c) ==
    LET ua == usb_addr(c.addr)
    IN  << c.cmd, IF c.cmd = E4 THEN c.size ELSE c.value,
           (ua \div 65536) % 256, (ua \div 256) % 256, ua % 256, 0 >>

VCRegs(r, c) ==
    LET b == cdb(c)
        r1 == [a \in DOMAIN r |->
                  IF a \in \h910D..\h9112 THEN b[a - \h910D + 1] ELSE r[a]]
    IN  Written(r1,
            (\hCEB2 :> Hi(c.addr)) @@ (\hCEB3 :> Lo(c.addr)) @@
            (\hCEB0 :> IF c.cmd = E5 THEN 5 ELSE 4) @@
            (\h9E00 :> IF c.cmd = E4 THEN \hC0 ELSE \h40) @@
            (\h9E01 :> c.cmd) @@ (\h9E02 :> Lo(c.addr)) @@
            (\h9E03 :> Hi(c.addr)) @@ (\h9E06 :> c.size) @@
            (\h9000 :> \h80) @@ (\h9101 :> \h21) @@ (\hC802 :> 5) @@
            (\hB432 :> 7) @@ (\hE765 :> 2))

\* Variant of VCXdata that does not put the vendor flag 0x08 at 0x0003.
VCXdataNoFlag(x, c) ==
    LET b == cdb(c)
        x1 == [a \in DOMAIN x |->
                  IF a \in \h0002..\h0007 THEN b[a - \h0002 + 1] ELSE x[a]]
        x2 == Written(x1, (\h07EC :> 0) @@ (\h05A5 :> 1) @@ (\h05A3 :> 0))
        x3 == IF c.cmd = E4
              THEN Written(x2, (\h05D3 :> 4) @@ (\h05B1 :> 4))
              ELSE IF c.cmd = E5
              THEN Written(x2, (\h05D3 :> 5) @@ (\h05B1 :> 5))
              ELSE x2
    IN  Written(x3, (\h0AF7 :> 1) @@ (\h053F :> 1))

\* Variant of VCXdata that marks slot 1 (0x05D3) only.
VCXdataSlotOne(x, c) ==
    LET b == cdb(c)
        x1 == [a \in DOMAIN x |->
                  IF a \in \h0002..\h0007 THEN b[a - \h0002 + 1] ELSE x[a]]
        x2 == Written(x1, (\h0003 :> 8) @@ (\h07EC :> 0) @@ (\h05A5 :> 1) @@
                          (\h05A3 :> 0))
        x3 == IF c.cmd = E4 THEN Written(x2, (\h05D3 :> 4))
              ELSE IF c.cmd = E5 THEN Written(x2, (\h05D3 :> 5))
              ELSE x2
    IN  Written(x3, (\h0AF7 :> 1) @@ (\h053F :> 1))

VCXdata(x, c) ==
    LET b == cdb(c)
        x1 == [a \in DOMAIN x |->
                  IF a \in \h0002..\h0007 THEN b[a - \h0002 + 1] ELSE x[a]]
        x2 == Written(x1, (\h0003 :> 8) @@ (\h07EC :> 0) @@ (\h05A5 :> 1) @@
                          (\h05A3 :> 0))
        x3 == IF c.cmd = E4
              THEN Written(x2, (\h05D3 :> 4) @@ (\h05B1 :> 4))
              ELSE IF c.cmd = E5
              THEN Written(x2, (\h05D3 :> 5) @@ (\h05B1 :> 5))
              ELSE x2
    IN  Written(x3, (\h0AF7 :> 1) @@ (\h053F :> 1))

\* Variant of VCHw that leaves usb_e5_pending_value as it was.
VCHwStaleValue(h, c) ==
    [h EXCEPT !.usb_ep0_len = 6,
              !.usb_cmd_type = c.cmd,
              !.usb_cmd_size = IF c.cmd = E4 THEN c.size ELSE 0,
              !.usb_cmd_pending = TRUE,
              !.pending_usb_interrupt = TRUE,
              !.usb_ce89_read_count = 0,
              !.e5_dma_done = FALSE,
              !.in_interrupt = FALSE]

\* Variant of VCHw that leaves the CPU's in_interrupt latch as it was.
VCHwLatched(h, c) ==
    [h EXCEPT !.usb_ep0_len = 6,
              !.usb_cmd_type = c.cmd,
              !.usb_cmd_size = IF c.cmd = E4 THEN c.size ELSE 0,
              !.usb_e5_pending_value =
                  IF c.cmd = E5 THEN c.value ELSE h.usb_e5_pending_value,
              !.usb_cmd_pending = TRUE,
              !.pending_usb_interrupt = TRUE,
              !.usb_ce89_read_count = 0,
              !.e5_dma_done = FALSE]

\* Variant of VCHw that ends the control transfer still marked active.
VCHwEndsTransfer(h, c) ==
    [h EXCEPT !.usb_ep0_len = 6,
              !.usb_cmd_type = c.cmd,
              !.usb_cmd_size = IF c.cmd = E4 THEN c.size ELSE 0,
              !.usb_e5_pending_value =
                  IF c.cmd = E5 THEN c.value ELSE h.usb_e5_pending_value,
              !.usb_cmd_pending = TRUE,
              !.pending_usb_interrupt = TRUE,
              !.usb_ce89_read_count = 0,
              !.e5_dma_done = FALSE,
              !.in_interrupt = FALSE,
              !.usb_control_transfer_active = FALSE]

VCHw(h, c) ==
    [h EXCEPT !.usb_ep0_len = 6,
              !.usb_cmd_type = c.cmd,
              !.usb_cmd_size = IF c.cmd = E4 THEN c.size ELSE 0,
              !.usb_e5_pending_value =
                  IF c.cmd = E5 THEN c.value ELSE h.usb_e5_pending_value,
              !.usb_cmd_pending = TRUE,
              !.pending_usb_interrupt = TRUE,
              !.usb_ce89_read_count = 0,
              !.e5_dma_done = FALSE,
              !.in_interrupt = FALSE]

VCEp(b, c) ==
    LET k == cdb(c) IN [i \in DOMAIN b |-> IF i < 6 THEN k[i + 1] ELSE b[i]]

\* USBHost.inject_vendor_command, on the emulator's state.
inject_vendor_command(c) ==
    /\ hw' = VCHw(hw, c)
    /\ regs' = VCRegs(regs, c)
    /\ xdata' = VCXdata(xdata, c)
    /\ idata6A' = 5
    /\ ep0_buf' = VCEp(ep0_buf, c)
    /\ ep_data_buf' = VCEp(ep_data_buf, c)

Inject(c) ==
    IF c.kind = "control_transfer"
    THEN inject_control_transfer(c)
    ELSE inject_vendor_command(c)

\* ------------------------------------------------ the emulator (firmware)

\* What one emu.step() of the firmware may do besides advancing hw.cycles.
FwEvents ==
    {"none", "clear_cmd", "clear_active", "clear_both", "dma_out", "isr",
     "connect", "stub"}
\* The events and cycle counts of a run of each facade.
SyncFwEvents == FwEvents \ {"connect", "stub"}
ThreadFwEvents == {"none", "clear_cmd", "clear_both", "dma_out", "connect"}
ThreadIncs == {1}

\* The bytes the firmware's DMA leaves in the output region.
Pattern(a) == (a - USB_DATA_BUFFER + 1) % 256

FwHw(h, ev, inc) ==
    LET h1 == [h EXCEPT !.cycles = h.cycles + inc]
    IN  CASE ev = "clear_cmd" -> [h1 EXCEPT !.usb_cmd_pending = FALSE]
          [] ev = "clear_active" ->
                [h1 EXCEPT !.usb_control_transfer_active = FALSE]
          [] ev = "clear_both" ->
                [h1 EXCEPT !.usb_cmd_pending = FALSE,
                           !.usb_control_transfer_active = FALSE]
          [] ev = "isr" ->
                [h1 EXCEPT !.in_interrupt = TRUE,
                           !.pending_usb_interrupt = FALSE]
          [] ev = "connect" -> [h1 EXCEPT !.usb_connected = TRUE]
          [] ev = "stub" -> [h1 EXCEPT !.usb_cmd_pending = FALSE]
          [] OTHER -> h1

FwXdata(x, ev) ==
    IF ev = "dma_out"
    THEN [a \in DOMAIN x |-> IF a \in OutAddrs THEN Pattern(a) ELSE x[a]]
    ELSE x

\* The stub firmware of the round-trip law: it serves the pending vendor
\* command in one step.  A write stores the value at the target address; a
\* read copies usb_cmd_size bytes from the target address to the output
\* region.  The target address is the one in registers 0xCEB2/0xCEB3.
StubAddr(r) == r[\hCEB2] * 256 + r[\hCEB3]

StubXdata(x, h, r) ==
    IF h.usb_cmd_type = E5
    THEN Written(x, StubAddr(r) :> h.usb_e5_pending_value)
    ELSE [a \in DOMAIN x |->
             IF a >= USB_DATA_BUFFER /\ a < USB_DATA_BUFFER + h.usb_cmd_size
             THEN x[StubAddr(r) + (a - USB_DATA_BUFFER)]
             ELSE x[a]]

\* Which events can happen in the state h (an event that changes nothing is
\* the event "none").
FwCan(h, ev) ==
    CASE ev = "clear_cmd" -> h.usb_cmd_pending
      [] ev = "clear_active" -> h.usb_control_transfer_active
      [] ev = "clear_both" ->
            h.usb_cmd_pending /\ h.usb_control_transfer_active
      [] ev = "isr" -> h.pending_usb_interrupt /\ ~h.in_interrupt
      [] ev = "connect" -> ~h.usb_connected
      [] ev = "stub" -> h.usb_cmd_pending /\ h.usb_cmd_type \in {E4, E5}
      [] OTHER -> TRUE

\* emu.step() returning True: one unit of firmware execution.
StepOk(ev, inc) ==
    /\ FwCan(hw, ev)
    /\ hw' = FwHw(hw, ev, inc)
    /\ xdata' = IF ev = "stub" THEN StubXdata(xdata, hw, regs)
                 ELSE FwXdata(xdata, ev)
    /\ UNCHANGED << regs, idata6A, ep0_buf, ep_data_buf >>

\* emu.step() returning False: the emulator cannot continue.
StepHalt == UNCHANGED hwvars

\* ------------------------------------------------------------- responses

\* USBResponse
Resp(ok, data, err, taken) ==
    [success |-> ok, data |-> data, error |-> err, cycles_taken |-> taken]

\* No response has been returned yet.
NoResponse == Resp(FALSE, << >>, "(none)", 0)

\* Variant of ReadOut that starts one byte past USB_DATA_BUFFER.
ReadOutShifted(x, n) == [i \in 1..n |-> x[USB_DATA_BUFFER + i]]

\* bytes(xdata[0x8000 + i] for i in range(n))
ReadOut(x, n) == [i \in 1..n |-> x[USB_DATA_BUFFER + i - 1]]

\* ---------------------------------------------------- synchronous facade

\* The transactions of a run.
ControlTransfers ==
    { Transfer(\h80, 6, \h0100, 0, 2),      \* GET_DESCRIPTOR(device), 2 bytes
      Transfer(\h80, 6, \h0200, 0, 300),    \* longer than the output region
      Transfer(\h00, 9, 1, 0, 0) }          \* SET_CONFIGURATION, outbound
VendorCommands ==
    { Vendor(E4, \h0100, 0, 2), Vendor(E5, \h0100, \h55, 1) }
Budgets == 0..3

\* Variant of the loop condition that allows one iteration more.
InBudgetLoose(h, start, max) == h.cycles - start <= max

\* while self.hw.cycles - start_cycles < max_cycles
InBudget(h, start, max) == h.cycles - start < max

\* not usb_control_transfer_active and not usb_cmd_pending
Completed(h) == ~h.usb_control_transfer_active /\ ~h.usb_cmd_pending

\* Variant of HaltResponse that reports the emulator's absolute cycle count.
HaltResponseAbsolute(h, s) == Resp(FALSE, << >>, "Emulator halted", h.cycles)

\* wait_for_response, the halt branch.
HaltResponse(h, s) == Resp(FALSE, << >>, "Emulator halted", h.cycles - s.start)

\* Variant of TimedOut with a strict comparison.
TimedOutStrict(taken, max) == taken > max

\* if cycles_taken >= max_cycles
TimedOut(taken, max) == taken >= max

\* wait_for_response after its loop: the timeout check and the extraction.
WaitResponse(h, x, s) ==
    LET taken == h.cycles - s.start
        pt == s.pending_transfer
    IN  IF TimedOut(taken, s.max)
        THEN Resp(FALSE, << >>, "Transfer timeout", taken)
        ELSE IF pt.kind # "none" /\ is_in_transfer(pt)
        THEN Resp(TRUE, ReadOut(x, Min(pt.wLength, OutCap)), "", taken)
        ELSE Resp(TRUE, << >>, "", taken)

\* Variant of OpResponse in which e4_read returns wait_for_response's result.
OpResponseAsIs(x, op, r) == r

\* What the facade's operation returns from wait_for_response's result r:
\* e4_read reads the output region again, the others return r.
OpResponse(x, op, r) ==
    IF op.kind = "vendor_command" /\ op.cmd = E4 /\ r.success
    THEN Resp(TRUE, ReadOut(x, op.size), "", r.cycles_taken)
    ELSE r

\* control_transfer / get_descriptor / e4_read / e5_write: the injection,
\* then wait_for_response(max) begins.
SyncCall(op, max) ==
    /\ sync.pc = "idle"
    /\ sync.nops < MaxOps
    /\ Inject(op)
    /\ sync' = [sync EXCEPT !.pc = "poll", !.op = op, !.max = max,
                            !.start = hw.cycles, !.steps = 0,
                            !.ended = "none", !.res = NoResponse,
                            !.nops = sync.nops + 1,
                            !.prev = [op |-> sync.op,
                                      ok |-> sync.res.success,
                                      latch |-> hw.in_interrupt],
                            !.pending_transfer =
                                IF op.kind = "control_transfer"
                                THEN op ELSE sync.pending_transfer]
    /\ UNCHANGED thrvars

\* One iteration of wait_for_response's loop in which step() succeeds.
SyncStep(ev, inc) ==
    /\ sync.pc = "poll"
    /\ InBudget(hw, sync.start, sync.max)
    /\ hw.cycles + inc <= MaxCycles
    /\ StepOk(ev, inc)
    /\ sync' = [sync EXCEPT !.steps = sync.steps + 1,
                            !.pc = IF Completed(hw') THEN "exit" ELSE "poll",
                            !.ended = IF Completed(hw') THEN "break"
                                      ELSE "none"]
    /\ UNCHANGED thrvars

\* The iteration in which step() reports a halt: wait_for_response returns.
SyncHalt ==
    /\ sync.pc = "poll"
    /\ InBudget(hw, sync.start, sync.max)
    /\ StepHalt
    /\ sync' = [sync EXCEPT !.steps = sync.steps + 1, !.pc = "idle",
                            !.ended = "halt",
                            !.res = OpResponse(xdata, sync.op,
                                               HaltResponse(hw, sync))]
    /\ UNCHANGED thrvars

\* The loop has ended (break, or the budget is used up): the operation returns.
SyncReturn ==
    /\ \/ sync.pc = "exit"
       \/ sync.pc = "poll" /\ ~InBudget(hw, sync.start, sync.max)
    /\ sync' = [sync EXCEPT !.pc = "idle",
                            !.ended = IF sync.pc = "exit" THEN "break"
                                      ELSE "budget",
                            !.res = OpResponse(xdata, sync.op,
                                               WaitResponse(hw, xdata, sync))]
    /\ UNCHANGED << hwvars, thrvars >>

SyncNext ==
    \/ \E op \in ControlTransfers \cup VendorCommands, max \in Budgets :
          SyncCall(op, max)
    \/ \E ev \in SyncFwEvents, inc \in 1..MaxInc : SyncStep(ev, inc)
    \/ SyncHalt
    \/ SyncReturn

\* e5_write then e4_read (size 1) on the round-trip addresses, against the
\* stub firmware.
RTValues == {\h55, \hAA}
RoundTripOps ==
    { Vendor(E5, a, v, 1) : a \in RTAddrs, v \in RTValues } \cup
    { Vendor(E4, a, 0, 1) : a \in RTAddrs }

RoundTripNext ==
    \/ \E op \in RoundTripOps, max \in Budgets : SyncCall(op, max)
    \/ SyncStep("stub", 1)
    \/ SyncHalt
    \/ SyncReturn

\* ------------------------------------------------------- threaded facade

\* The commands the callers of a ThreadedUSBHost submit, and their 'timeout':
\* every transaction when one caller calls at a time, one vendor read when
\* several callers and several threads run together.
SerialOps == ControlTransfers \cup VendorCommands
ThreadOps == { Vendor(E4, \h0100, 0, 2) }
ThreadBudgets == {0, 2}

\* The dict put on _command_queue.  id numbers the submissions (the program
\* has no such key: it only lets the properties name a command).
Cmd(id, op, timeout) == [id |-> id, op |-> op, timeout |-> timeout]
NoCmd == Cmd(0, None, 0)

\* Variant of PollDone in which either flag ends a control transfer's loop.
PollDoneEither(h, op) ==
    IF op.kind = "control_transfer"
    THEN ~h.usb_cmd_pending \/ ~h.usb_control_transfer_active
    ELSE ~h.usb_cmd_pending

\* _process_command's loop condition on the flags, per command type.
PollDone(h, op) ==
    IF op.kind = "control_transfer"
    THEN ~h.usb_cmd_pending /\ ~h.usb_control_transfer_active
    ELSE ~h.usb_cmd_pending

\* _process_command, "Build response".
ThreadResponse(h, x, op, start) ==
    LET taken == h.cycles - start
    IN  IF op.kind = "control_transfer"
        THEN IF is_in_transfer(op)
             THEN Resp(TRUE, ReadOut(x, Min(op.wLength, OutCap)), "", taken)
             ELSE Resp(TRUE, << >>, "", taken)
        ELSE IF op.cmd = E4
             THEN Resp(TRUE, ReadOut(x, op.size), "", taken)
             ELSE Resp(TRUE, << >>, "", taken)

\* An entry of _response_queue: the USBResponse, with the command it was
\* built for and how that command's loop ended (neither is in the program).
Entry(r, id, why) == [resp |-> r, id |-> id, why |-> why]

Alive(w) == workers[w].pc \notin {"unborn", "exited"}

\* Variant of start() that sets _running without starting a thread.
StartNoThread ==
    /\ thr.ctl = "idle"
    /\ IF thr.running
       THEN UNCHANGED thr
       ELSE /\ thr.spawned < MaxWorkers
            /\ thr' = [thr EXCEPT !.running = TRUE,
                                  !.thread = thr.spawned + 1,
                                  !.spawned = thr.spawned + 1,
                                  !.stops = 0,
                                  !.ctl = "start_wait"]
    /\ UNCHANGED << hwvars, sync, workers, cmdQ, respQ, callers >>

\* start(): returns at once when _running, else spawns the thread and waits.
Start ==
    /\ thr.ctl = "idle"
    /\ IF thr.running
       THEN UNCHANGED << thr, workers >>
       ELSE /\ thr.spawned < MaxWorkers
            /\ thr' = [thr EXCEPT !.running = TRUE,
                                  !.thread = thr.spawned + 1,
                                  !.spawned = thr.spawned + 1,
                                  !.stops = 0,
                                  !.ctl = "start_wait"]
            /\ workers' = [workers EXCEPT ![thr.spawned + 1].pc = "loop"]
    /\ UNCHANGED << hwvars, sync, cmdQ, respQ, callers >>

\* start()'s wait: while not usb_connected: sleep; if not _running: break
StartReturn ==
    /\ thr.ctl = "start_wait"
    /\ hw.usb_connected \/ ~thr.running
    /\ thr' = [thr EXCEPT !.ctl = "idle"]
    /\ UNCHANGED << hwvars, sync, workers, cmdQ, respQ, callers >>

\* Variant of stop() that leaves _running as it is.
StopKeepsRunning ==
    /\ thr.ctl = "idle"
    /\ thr' = [thr EXCEPT !.stops = Min(thr.stops + 1, 2),
                          !.ctl = IF thr.thread # 0 THEN "stop_join"
                                  ELSE "idle"]
    /\ UNCHANGED << hwvars, sync, workers, cmdQ, respQ, callers >>

\* stop(): _running = False, then join the thread if there is one.  stops
\* counts the calls of stop() since the last start() that spawned (up to 2).
Stop ==
    /\ thr.ctl = "idle"
    /\ thr' = [thr EXCEPT !.running = FALSE,
                          !.stops = Min(thr.stops + 1, 2),
                          !.ctl = IF thr.thread # 0 THEN "stop_join"
                                  ELSE "idle"]
    /\ UNCHANGED << hwvars, sync, workers, cmdQ, respQ, callers >>

\* join(timeout=2.0) returns because the thread has ended; _thread = None.
StopJoined ==
    /\ thr.ctl = "stop_join"
    /\ workers[thr.thread].pc = "exited"
    /\ thr' = [thr EXCEPT !.thread = 0, !.ctl = "idle"]
    /\ UNCHANGED << hwvars, sync, workers, cmdQ, respQ, callers >>

\* join(timeout=2.0) returns after 2 s with the thread still inside
\* _process_command's loop, which does not read _running; _thread = None.
StopJoinTimeout ==
    /\ thr.ctl = "stop_join"
    /\ workers[thr.thread].pc = "poll"
    /\ thr' = [thr EXCEPT !.thread = 0, !.ctl = "idle"]
    /\ UNCHANGED << hwvars, sync, workers, cmdQ, respQ, callers >>

\* _run_loop: while self._running fails and the thread ends.
WExit(w) ==
    /\ workers[w].pc = "loop"
    /\ ~thr.running
    /\ workers' = [workers EXCEPT ![w].pc = "exited"]
    /\ UNCHANGED << hwvars, sync, thr, cmdQ, respQ, callers >>

\* _run_loop, an iteration with no command: _running holds, get_nowait()
\* raises queue.Empty, emu.step() succeeds.
WIdle(w, ev, inc) ==
    /\ workers[w].pc = "loop"
    /\ thr.running
    /\ cmdQ = << >>
    /\ hw.cycles + inc <= MaxThreadCycles
    /\ StepOk(ev, inc)
    /\ UNCHANGED << sync, thr, workers, cmdQ, respQ, callers >>

\* The same iteration with emu.step() reporting a halt: the thread ends
\* (_running is left as it is).
WIdleHalt(w) ==
    /\ workers[w].pc = "loop"
    /\ thr.running
    /\ cmdQ = << >>
    /\ StepHalt
    /\ workers' = [workers EXCEPT ![w].pc = "exited"]
    /\ UNCHANGED << sync, thr, cmdQ, respQ, callers >>

\* _run_loop: _running holds and get_nowait() returns a command;
\* _process_command injects it.
WGet(w) ==
    /\ workers[w].pc = "loop"
    /\ thr.running
    /\ cmdQ # << >>
    /\ Inject(Head(cmdQ).op)
    /\ cmdQ' = Tail(cmdQ)
    /\ workers' = [workers EXCEPT ![w].pc = "poll", ![w].cmd = Head(cmdQ),
                                  ![w].start = hw.cycles]
    /\ UNCHANGED << sync, thr, respQ, callers >>

\* One iteration of _process_command's loop in which step() succeeds.
WPollStep(w, ev, inc) ==
    /\ workers[w].pc = "poll"
    /\ InBudget(hw, workers[w].start, workers[w].cmd.timeout)
    /\ ~PollDone(hw, workers[w].cmd.op)
    /\ hw.cycles + inc <= MaxThreadCycles
    /\ StepOk(ev, inc)
    /\ UNCHANGED << sync, thr, workers, cmdQ, respQ, callers >>

\* Variant of _process_command's loop that also ends when _running is false.
PollEndsOnStop(h, wk) ==
    IF ~thr.running THEN {"stopped"}
    ELSE IF ~InBudget(h, wk.start, wk.cmd.timeout) THEN {"budget"}
    ELSE IF PollDone(h, wk.cmd.op) THEN {"cleared"}
    ELSE {"halt"}

\* How _process_command's loop can end in the state h.
PollEnds(h, wk) ==
    IF ~InBudget(h, wk.start, wk.cmd.timeout) THEN {"budget"}
    ELSE IF PollDone(h, wk.cmd.op) THEN {"cleared"}
    ELSE {"halt"}

\* Variant of _process_command that returns without putting the response.
WRespondSilent(w) ==
    /\ workers[w].pc = "poll"
    /\ workers' = [workers EXCEPT ![w].pc = "step", ![w].cmd = NoCmd,
                                  ![w].start = 0]
    /\ UNCHANGED << hwvars, sync, thr, cmdQ, respQ, callers >>

\* _process_command's loop ends (budget, flags, or step() reporting a halt)
\* and the response is put on the queue.
WRespond(w) ==
    /\ workers[w].pc = "poll"
    /\ \E why \in PollEnds(hw, workers[w]) :
          respQ' = Append(respQ,
                      Entry(ThreadResponse(hw, xdata, workers[w].cmd.op,
                                           workers[w].start),
                            workers[w].cmd.id, why))
    /\ workers' = [workers EXCEPT ![w].pc = "step", ![w].cmd = NoCmd,
                                  ![w].start = 0]
    /\ UNCHANGED << hwvars, sync, thr, cmdQ, callers >>

\* _run_loop: emu.step() after _process_command succeeds.
WStep(w, ev, inc) ==
    /\ workers[w].pc = "step"
    /\ hw.cycles + inc <= MaxThreadCycles
    /\ StepOk(ev, inc)
    /\ workers' = [workers EXCEPT ![w].pc = "loop"]
    /\ UNCHANGED << sync, thr, cmdQ, respQ, callers >>

\* _run_loop: emu.step() after _process_command reports a halt; the thread
\* ends (_running is left as it is).
WStepHalt(w) ==
    /\ workers[w].pc = "step"
    /\ StepHalt
    /\ workers' = [workers EXCEPT ![w].pc = "exited"]
    /\ UNCHANGED << sync, thr, cmdQ, respQ, callers >>

\* control_transfer / vendor_command: _command_queue.put(...)
CPut(c, op, timeout) ==
    /\ callers[c].pc = "idle"
    /\ thr.nsub < MaxCmds
    /\ cmdQ' = Append(cmdQ, Cmd(thr.nsub + 1, op, timeout))
    /\ thr' = [thr EXCEPT !.nsub = thr.nsub + 1]
    /\ callers' = [callers EXCEPT ![c] = [pc |-> "wait", id |-> thr.nsub + 1]]
    /\ UNCHANGED << hwvars, sync, workers, respQ >>

\* control_transfer / vendor_command: _response_queue.get(timeout=10.0)
\* returns the head of the queue.
CGet(c) ==
    /\ callers[c].pc = "wait"
    /\ respQ # << >>
    /\ respQ' = Tail(respQ)
    /\ callers' = [callers EXCEPT ![c].pc = "idle"]
    /\ UNCHANGED << hwvars, sync, thr, workers, cmdQ >>

\* _response_queue.get(timeout=10.0) raises queue.Empty after 10 s.
CTimeout(c) ==
    /\ callers[c].pc = "wait"
    /\ respQ = << >>
    /\ callers' = [callers EXCEPT ![c].pc = "idle"]
    /\ UNCHANGED << hwvars, sync, thr, workers, cmdQ, respQ >>

\* start() and stop() whose join() waits for the thread to end.
JoinedNext ==
    \/ Start
    \/ StartReturn
    \/ Stop
    \/ StopJoined

ControllerNext ==
    \/ JoinedNext
    \/ StopJoinTimeout

WorkerNext ==
    \E w \in 1..MaxWorkers :
        \/ WExit(w)
        \/ \E ev \in ThreadFwEvents, inc \in ThreadIncs : WIdle(w, ev, inc)
        \/ WIdleHalt(w)
        \/ WGet(w)
        \/ \E ev \in ThreadFwEvents, inc \in ThreadIncs : WPollStep(w, ev, inc)
        \/ WRespond(w)
        \/ \E ev \in ThreadFwEvents, inc \in ThreadIncs : WStep(w, ev, inc)
        \/ WStepHalt(w)

CallerNext ==
    \E c \in 1..NCallers :
        \/ \E op \in ThreadOps, b \in ThreadBudgets : CPut(c, op, b)
        \/ CGet(c)
        \/ CTimeout(c)

\* Callers whose get() is always answered within its 10 s.
PatientCallerNext ==
    \E c \in 1..NCallers :
        \/ \E op \in ThreadOps, b \in ThreadBudgets : CPut(c, op, b)
        \/ CGet(c)

\* One caller, calling again only after its call has returned or raised.
SerialCallerNext ==
    \/ \E op \in SerialOps, b \in ThreadBudgets : CPut(1, op, b)
    \/ CGet(1)
    \/ CTimeout(1)

\* One caller whose get() is always answered within its 10 s, and who
\* submits only after start() has started a worker for the second time.
Restarted == thr.spawned >= 2

RestartCallerNext ==
    \/ Restarted /\ \E op \in ThreadOps, b \in ThreadBudgets : CPut(1, op, b)
    \/ CGet(1)

\* All that the worker thread w can do.
WorkerStep(w) ==
    \/ WExit(w)
    \/ \E ev \in ThreadFwEvents, inc \in ThreadIncs : WIdle(w, ev, inc)
    \/ WIdleHalt(w)
    \/ WGet(w)
    \/ \E ev \in ThreadFwEvents, inc \in ThreadIncs : WPollStep(w, ev, inc)
    \/ WRespond(w)
    \/ \E ev \in ThreadFwEvents, inc \in ThreadIncs : WStep(w, ev, inc)
    \/ WStepHalt(w)

RestartNext == ControllerNext \/ WorkerNext \/ RestartCallerNext

ThreadedNext == ControllerNext \/ WorkerNext \/ CallerNext

SerialNext == JoinedNext \/ WorkerNext \/ SerialCallerNext

CallersNext == JoinedNext \/ WorkerNext \/ PatientCallerNext

\* ------------------------------------------- the two facades side by side

\* A firmware behaviour: what the i-th step() after the injection does, each
\* step taking one cycle; "halt" is step() returning False.  After the
\* script the firmware steps without effect.
MirrorLen == 2
MirrorEvents == {"none", "clear_cmd", "clear_both", "dma_out", "halt"}
MirrorScripts == [1..MirrorLen -> MirrorEvents]
EvAt(script, i) == IF i <= MirrorLen THEN script[i] ELSE "none"

\* The emulator state e = [hw, xdata] after the injection of op, and after a
\* step() of the firmware.
InjectE(e, op) ==
    IF op.kind = "control_transfer"
    THEN [hw |-> CTHw(e.hw), xdata |-> CTXdata(e.xdata, op)]
    ELSE [hw |-> VCHw(e.hw, op), xdata |-> VCXdata(e.xdata, op)]

FwApply(e, ev) == [hw |-> FwHw(e.hw, ev, 1), xdata |-> FwXdata(e.xdata, ev)]

\* wait_for_response from its i-th iteration on: the emulator state it ends
\* in and the USBResponse it returns.
RECURSIVE SyncPoll(_, _, _, _)
SyncPoll(e, s, script, i) ==
    IF ~InBudget(e.hw, s.start, s.max)
    THEN [e |-> e, res |-> WaitResponse(e.hw, e.xdata, s)]
    ELSE IF EvAt(script, i) = "halt"
    THEN [e |-> e, res |-> HaltResponse(e.hw, s)]
    ELSE LET e1 == FwApply(e, EvAt(script, i))
         IN  IF Completed(e1.hw)
             THEN [e |-> e1, res |-> WaitResponse(e1.hw, e1.xdata, s)]
             ELSE SyncPoll(e1, s, script, i + 1)

\* A USBHost operation on a new facade: injection, wait_for_response(max),
\* and the operation's own return.
SyncOutcome(e0, op, max, script) ==
    LET e == InjectE(e0, op)
        s == [start |-> e.hw.cycles, max |-> max,
              pending_transfer |->
                  IF op.kind = "control_transfer" THEN op ELSE None]
        out == SyncPoll(e, s, script, 1)
    IN  OpResponse(out.e.xdata, op, out.res)

\* _process_command's loop from its i-th iteration on, and the response.
RECURSIVE ThreadPoll(_, _, _, _, _, _)
ThreadPoll(e, op, start, max, script, i) ==
    IF \/ ~InBudget(e.hw, start, max)
       \/ PollDone(e.hw, op)
       \/ EvAt(script, i) = "halt"
    THEN ThreadResponse(e.hw, e.xdata, op, start)
    ELSE ThreadPoll(FwApply(e, EvAt(script, i)), op, start, max, script, i + 1)

\* _process_command for the command (op, timeout = max).
ThreadOutcome(e0, op, max, script) ==
    LET e == InjectE(e0, op)
    IN  ThreadPoll(e, op, e.hw.cycles, max, script, 1)

\* The same operation with the same budget on a new USBHost and on a new
\* ThreadedUSBHost, each on its own emulator in the present state and with
\* the same firmware behaviour: sync.res is what the first returns, the
\* response queue holds what the worker of the second enqueues.
MirrorCall(op, max, script) ==
    /\ sync.nops = 0
    /\ thr.nsub = 0
    /\ LET e0 == [hw |-> hw, xdata |-> xdata]
       IN  /\ sync' = [sync EXCEPT !.op = op, !.max = max, !.nops = 1,
                                   !.res = SyncOutcome(e0, op, max, script)]
           /\ respQ' = << Entry(ThreadOutcome(e0, op, max, script), 1,
                                "run") >>
    /\ thr' = [thr EXCEPT !.nsub = 1]
    /\ UNCHANGED << hwvars, workers, cmdQ, callers >>

MirrorNext ==
    \E op \in SerialOps, max \in Budgets, script \in MirrorScripts :
        MirrorCall(op, max, script)

\* Neither facade has been used yet.
\* --------------------------------------- an emulator that never halts

\* The worker thread on an emulator whose step() never reports a halt and
\* takes one cycle.  The cycle counter needs no cap inside a command (the
\* budget bounds it); the idle iterations stop at RunIdleCycles.
RunBudget == 2
RunIdleCycles == 1

RunIdle(w, ev) ==
    /\ workers[w].pc = "loop"
    /\ thr.running
    /\ cmdQ = << >>
    /\ hw.cycles < RunIdleCycles
    /\ StepOk(ev, 1)
    /\ UNCHANGED << sync, thr, workers, cmdQ, respQ, callers >>

RunPollStep(w, ev) ==
    /\ workers[w].pc = "poll"
    /\ InBudget(hw, workers[w].start, workers[w].cmd.timeout)
    /\ ~PollDone(hw, workers[w].cmd.op)
    /\ StepOk(ev, 1)
    /\ UNCHANGED << sync, thr, workers, cmdQ, respQ, callers >>

RunRespond(w) ==
    /\ "halt" \notin PollEnds(hw, workers[w])
    /\ WRespond(w)

RunStep(w, ev) ==
    /\ workers[w].pc = "step"
    /\ StepOk(ev, 1)
    /\ workers' = [workers EXCEPT ![w].pc = "loop"]
    /\ UNCHANGED << sync, thr, cmdQ, respQ, callers >>

RunWorker(w) ==
    \/ WExit(w)
    \/ \E ev \in ThreadFwEvents : RunIdle(w, ev)
    \/ WGet(w)
    \/ \E ev \in ThreadFwEvents : RunPollStep(w, ev)
    \/ RunRespond(w)
    \/ \E ev \in ThreadFwEvents : RunStep(w, ev)

\* One caller whose get() is always answered within its 10 s.
RunningNext ==
    \/ JoinedNext
    \/ \E w \in 1..MaxWorkers : RunWorker(w)
    \/ \E op \in SerialOps, b \in {0, RunBudget} : CPut(1, op, b)
    \/ CGet(1)

\* ------------------------------------------------ get_descriptor's callers

\* USBDescriptorType.DEVICE and STRING, two indexes, and the lengths 2 and
\* 300.
DescTypes == {1, 3}
DescIndexes == {0, 1}
DescLengths == {2, 300}

\* USBHost.get_descriptor: control_transfer of the transfer built above,
\* that is its injection followed by wait_for_response (SyncStep, SyncHalt,
\* SyncReturn).
SyncGetDescriptor(desc_type, desc_index, length, max) ==
    SyncCall(get_descriptor(desc_type, desc_index, length), max)

\* ThreadedUSBHost.get_descriptor: its control_transfer queues the transfer
\* and waits for the response (CGet, CTimeout).
ThreadedGetDescriptor(c, desc_type, desc_index, length, timeout) ==
    CPut(c, get_descriptor(desc_type, desc_index, length), timeout)

\* One get_descriptor call on a new facade.
DescriptorSyncNext ==
    \/ /\ sync.nops = 0
       /\ \E t \in DescTypes, i \in DescIndexes, l \in DescLengths,
             max \in ThreadBudgets : SyncGetDescriptor(t, i, l, max)
    \/ \E ev \in SyncFwEvents, inc \in 1..MaxInc : SyncStep(ev, inc)
    \/ SyncHalt
    \/ SyncReturn

DescriptorThreadedNext ==
    \/ JoinedNext
    \/ WorkerNext
    \/ /\ thr.nsub = 0
       /\ \E t \in DescTypes, i \in DescIndexes, l \in DescLengths,
             b \in ThreadBudgets : ThreadedGetDescriptor(1, t, i, l, b)
    \/ CGet(1)
    \/ CTimeout(1)

\* ------------------------------------------------ request-type classes

\* bmRequestType of a standard, a class and a vendor request, each in both
\* directions.
RequestTypes == {\h00, \h80, \h21, \hA1, \h40, \hC0}
ClassTransfers == { Transfer(rt, 6, \h0100, 0, 2) : rt \in RequestTypes }

\* control_transfer with requests of the three classes.
ClassesNext ==
    \/ \E op \in ClassTransfers, max \in ThreadBudgets : SyncCall(op, max)
    \/ \E ev \in SyncFwEvents, inc \in 1..MaxInc : SyncStep(ev, inc)
    \/ SyncHalt
    \/ SyncReturn

\* ------------------------------------------------------ vendor commands

\* e4_read and e5_write at addresses below and above bit 16, with several
\* sizes and values, and one control transfer to precede them.
VendorAddrs == {\h0100, \h10100, \h20100}
VendorInputs ==
    { Vendor(E4, a, 0, s) : a \in VendorAddrs, s \in {1, 255} } \cup
    { Vendor(E5, a, v, 1) : a \in VendorAddrs, v \in {\h55, \hFF} } \cup
    { Transfer(\h80, 6, \h0100, 0, 2) }

VendorNext ==
    \/ \E op \in VendorInputs, max \in ThreadBudgets : SyncCall(op, max)
    \/ \E ev \in SyncFwEvents, inc \in 1..MaxInc : SyncStep(ev, inc)
    \/ SyncHalt
    \/ SyncReturn

SyncUnused == sync.nops = 0
ThreadedUnused == thr.spawned = 0 /\ thr.nsub = 0

\* One emulator, driven by one of the two facades.
Next ==
    \/ ThreadedUnused /\ SyncNext
    \/ SyncUnused /\ SerialNext

DescriptorNext ==
    \/ ThreadedUnused /\ DescriptorSyncNext
    \/ SyncUnused /\ DescriptorThreadedNext

\* ------------------------------------------------------------------ Init

InitHw ==
    /\ \E conn \in BOOLEAN :
       hw = [cycles |-> 0, usb_cmd_pending |-> FALSE,
             usb_control_transfer_active |-> FALSE,
             pending_usb_interrupt |-> FALSE, in_interrupt |-> FALSE,
             usb_connected |-> conn, usb_ep0_len |-> 0, usb_cmd_type |-> 0,
             usb_cmd_size |-> 0, usb_e5_pending_value |-> 0,
             usb_92c2_read_count |-> 0, usb_ce89_read_count |-> 0,
             e5_dma_done |-> FALSE]
    /\ regs = [a \in RegAddrs |-> 0]
    /\ xdata = [a \in XAddrs |-> 0]
    /\ idata6A = 0
    /\ ep0_buf = [i \in 0..7 |-> 0]
    /\ ep_data_buf = [i \in 0..5 |-> 0]

InitSync ==
    sync = [pc |-> "idle", op |-> None, max |-> 0, start |-> 0, steps |-> 0,
            ended |-> "none", res |-> NoResponse, nops |-> 0,
            prev |-> [op |-> None, ok |-> FALSE, latch |-> FALSE],
            pending_transfer |-> None]

InitThreaded ==
    /\ thr = [running |-> FALSE, thread |-> 0, ctl |-> "idle", spawned |-> 0,
              nsub |-> 0, stops |-> 0]
    /\ workers = [w \in 1..MaxWorkers |->
                     [pc |-> "unborn", cmd |-> NoCmd, start |-> 0]]
    /\ cmdQ = << >>
    /\ respQ = << >>
    /\ callers = [c \in 1..NCallers |-> [pc |-> "idle", id |-> 0]]

Init == InitHw /\ InitSync /\ InitThreaded

\* The synchronous facade driving the emulator.
SpecSync == Init /\ [][SyncNext]_vars

\* The threaded facade: controller, worker threads and callers.
SpecThreaded == Init /\ [][ThreadedNext]_vars

\* The threaded facade used by one caller at a time, every join() waiting
\* for its thread to end.
SpecSerial == Init /\ [][SerialNext]_vars

\* The threaded facade used by several callers, no get() timing out and
\* every join() waiting for its thread to end.
SpecCallers == Init /\ [][CallersNext]_vars

\* Either facade on a fresh emulator.
Spec == Init /\ [][Next]_vars

\* start(), stop() and one patient caller; every started thread keeps being
\* scheduled, and a caller blocked in get() takes a response that is there.
SpecRestart ==
    /\ Init
    /\ [][RestartNext]_vars
    /\ \A w \in 1..MaxWorkers : WF_vars(WorkerStep(w))
    /\ WF_vars(CGet(1))

\* One operation on each facade, side by side.
SpecMirror == Init /\ [][MirrorNext]_vars

\* The synchronous facade against the stub firmware.
SpecRoundTrip == Init /\ [][RoundTripNext]_vars

\* Control transfers of the three request-type classes on USBHost.
SpecClasses == Init /\ [][ClassesNext]_vars

\* Vendor commands on USBHost.
SpecVendor == Init /\ [][VendorNext]_vars

\* The threaded facade on an emulator that never halts, the worker threads
\* scheduled fairly.
SpecRunning ==
    /\ Init
    /\ [][RunningNext]_vars
    /\ \A w \in 1..MaxWorkers : WF_vars(RunWorker(w))

\* USBHost whose calls, once made, are run to their return.
SyncRuns == (\E ev \in SyncFwEvents, inc \in 1..MaxInc : SyncStep(ev, inc))
            \/ SyncHalt \/ SyncReturn

SpecSyncFair == Init /\ [][SyncNext]_vars /\ WF_vars(SyncRuns)

\* get_descriptor on one emulator through one of the two facades.
SpecDescriptor == Init /\ [][DescriptorNext]_vars

\* ============================================================== properties

\* A worker's step that dequeues a command / that enqueues a response.
Dequeues(w) == workers[w].pc = "loop" /\ workers'[w].pc = "poll"
Enqueues(w) == workers[w].pc = "poll" /\ workers'[w].pc = "step"
Last(q) == q[Len(q)]

\* The flags _process_command polls for a command of op's type are clear.
PolledFlagsClear(h, op) ==
    /\ ~h.usb_cmd_pending
    /\ op.kind = "control_transfer" => ~h.usb_control_transfer_active

\* The k-th command dequeued is the k-th command submitted, and the response
\* enqueued is the one of the command the worker holds.
InOrder(w) ==
    /\ Dequeues(w) => workers'[w].cmd.id = thr.nsub - Len(cmdQ) + 1
    /\ Enqueues(w) =>
          /\ respQ' = Append(respQ, Last(respQ'))
          /\ Last(respQ').id = workers[w].cmd.id
RespSorted ==
    \A i, j \in 1..Len(respQ) : i < j => respQ[i].id < respQ[j].id

\* C1 as stated: with a single worker, commands are dequeued in submission
\* order, results are enqueued in that order, and a result is enqueued only
\* once the polled flags are clear or the cycle budget is used up.
C1_OrderedAfterCompletion ==
    [][\A w \in 1..MaxWorkers :
          /\ InOrder(w)
          /\ Enqueues(w) =>
                \/ PolledFlagsClear(hw, workers[w].cmd.op)
                \/ ~InBudget(hw, workers[w].start, workers[w].cmd.timeout)
      ]_vars

\* C1 amended: with a single worker, commands are dequeued in submission
\* order and results are enqueued in that order; a result is enqueued only
\* once the polled flags are clear, the cycle budget is used up, or step()
\* has reported a halt.
C1_OrderedAfterLoopEnd ==
    /\ []RespSorted
    /\ [][\A w \in 1..MaxWorkers :
             /\ InOrder(w)
             /\ Enqueues(w) =>
                   LET e == Last(respQ')
                       wk == workers[w]
                   IN  /\ e.why \in {"cleared", "budget", "halt"}
                       /\ e.why = "cleared" => PolledFlagsClear(hw, wk.cmd.op)
                       /\ e.why = "budget" =>
                             ~InBudget(hw, wk.start, wk.cmd.timeout)
                       /\ e.why = "halt" =>
                             /\ InBudget(hw, wk.start, wk.cmd.timeout)
                             /\ ~PolledFlagsClear(hw, wk.cmd.op)
         ]_vars

\* Two results are queued in submission order, the second after a halt.
C1_Witness ==
    /\ Len(respQ) = 2
    /\ respQ[1].id = 1
    /\ respQ[2].id = 2
    /\ respQ[2].why = "halt"

\* A caller's get() returning the head of the response queue.
Gets(c) ==
    /\ callers[c].pc = "wait"
    /\ callers'[c].pc = "idle"
    /\ respQ # << >>
    /\ respQ' = Tail(respQ)

\* C2 as stated: the caller of the k-th submitted command receives the
\* result of the k-th command, in every interleaving of the callers.
C2_CallerGetsOwnResult ==
    [][\A c \in 1..NCallers : Gets(c) => Head(respQ).id = callers[c].id]_vars

\* C3 as stated: with one caller calling at a time, every call returns the
\* result of its own command, also after a call that ended by queue.Empty.
C3_SerialCallGetsOwnResult ==
    [][Gets(1) => Head(respQ).id = callers[1].id]_vars

\* C4 as stated: at most one worker thread is alive at any time (callers
\* never write emulator state: no caller action changes it).
C4_OneWorkerAlive ==
    Cardinality({w \in 1..MaxWorkers : Alive(w)}) <= 1

\* C5 as stated: at most one command is in flight (injected, its result
\* not yet on the response queue).
C5_OneInFlight ==
    Cardinality({w \in 1..MaxWorkers : workers[w].pc = "poll"}) <= 1

\* wait_for_response has returned.
SyncReturned == sync.pc = "idle" /\ sync.nops > 0

\* Every step() of the last wait_for_response advanced hw.cycles by one.
UnitSteps == hw.cycles - sync.start = sync.steps

\* C6: when the budget B is used up by B steps of one cycle each without the
\* flags clearing, wait_for_response returns success = False, 'Transfer
\* timeout' and cycles_taken = B.
C6_TimeoutAtBudget ==
    (/\ SyncReturned
     /\ sync.ended # "halt"
     /\ UnitSteps
     /\ sync.steps = sync.max
     /\ ~Completed(hw))
    => /\ sync.res.success = FALSE
       /\ sync.res.error = "Transfer timeout"
       /\ sync.res.cycles_taken = sync.max

C6_Witness ==
    /\ SyncReturned
    /\ sync.ended # "halt"
    /\ UnitSteps
    /\ sync.steps = sync.max
    /\ ~Completed(hw)
    /\ sync.max = 2

\* C7 as stated: when the flags clear on the k-th step, 1 <= k <= B, each
\* step one cycle, wait_for_response returns success = True and
\* cycles_taken = k.
C7_SuccessWithinBudget ==
    (/\ SyncReturned
     /\ sync.ended = "break"
     /\ UnitSteps
     /\ sync.max >= 1
     /\ sync.steps >= 1
     /\ sync.steps <= sync.max)
    => /\ sync.res.success = TRUE
       /\ sync.res.cycles_taken = sync.steps

\* C8: when step() reports a halt before the flags clear, wait_for_response
\* has returned (no further step is requested) with success = False, the
\* error 'Emulator halted' and cycles_taken = the cycles run since it began.
C8_HaltReturns ==
    sync.ended = "halt"
    => /\ sync.pc = "idle"
       /\ sync.res.success = FALSE
       /\ sync.res.error = "Emulator halted"
       /\ sync.res.data = << >>
       /\ sync.res.cycles_taken = hw.cycles - sync.start

C8_Witness ==
    /\ sync.ended = "halt"
    /\ sync.start >= 1
    /\ hw.cycles - sync.start >= 1

\* C9 as stated: a command whose loop ended by the budget or by a halt has
\* a result with success = False and an error message; success = True is
\* enqueued only when the flags were seen clear.
C9_FailureReported ==
    \A i \in 1..Len(respQ) :
        respQ[i].why # "cleared"
        => respQ[i].resp.success = FALSE /\ respQ[i].resp.error # ""

\* The payload d is the first min(l, 256) bytes of the output region x.
IsOutPrefix(d, x, l) ==
    /\ Len(d) = Min(l, 256)
    /\ \A i \in 1..Len(d) : d[i] = x[USB_DATA_BUFFER + i - 1]

\* C10: for an inbound control transfer of length L, a successful result's
\* payload is the first min(L, 256) bytes of the output region at the time
\* of extraction, in the synchronous facade and in the threaded one.
C10_InboundPayload ==
    /\ [](SyncReturned /\ sync.op.kind = "control_transfer"
            /\ sync.op.bmRequestType >= 128 /\ sync.res.success
          => IsOutPrefix(sync.res.data, xdata, sync.op.wLength))
    /\ [][\A w \in 1..MaxWorkers :
             (/\ Enqueues(w)
              /\ workers[w].cmd.op.kind = "control_transfer"
              /\ workers[w].cmd.op.bmRequestType >= 128
              /\ Last(respQ').resp.success)
             => IsOutPrefix(Last(respQ').resp.data, xdata,
                            workers[w].cmd.op.wLength)
         ]_vars

\* The threaded facade has answered an inbound transfer of 300 bytes with
\* the 256 bytes the firmware's DMA left in the output region.
C10_Witness ==
    /\ respQ # << >>
    /\ respQ[1].resp.success
    /\ Len(respQ[1].resp.data) = 256
    /\ respQ[1].resp.data[256] = Pattern(USB_DATA_BUFFER + 255)
    /\ respQ[1].resp.data[1] = 1

\* C11 as stated: on the synchronous facade, whatever operations came before,
\* a successful outbound control transfer and a successful vendor write
\* return an empty payload.
C11_OutboundPayloadEmpty ==
    (/\ SyncReturned
     /\ sync.res.success
     /\ \/ sync.op.kind = "control_transfer" /\ ~is_in_transfer(sync.op)
        \/ sync.op.kind = "vendor_command" /\ sync.op.cmd = E5)
    => sync.res.data = << >>

\* The payload d is the n bytes at the start of the output region x.
IsOutBytes(d, x, n) ==
    /\ Len(d) = n
    /\ \A i \in 1..n : d[i] = x[USB_DATA_BUFFER + i - 1]

\* C12: a successful vendor read of size n returns exactly the first n bytes
\* of the output region as they are when the result is built, in the
\* synchronous facade and in the threaded one.
C12_VendorReadPayload ==
    /\ [](SyncReturned /\ sync.op.kind = "vendor_command"
            /\ sync.op.cmd = E4 /\ sync.res.success
          => IsOutBytes(sync.res.data, xdata, sync.op.size))
    /\ [][\A w \in 1..MaxWorkers :
             (/\ Enqueues(w)
              /\ workers[w].cmd.op.kind = "vendor_command"
              /\ workers[w].cmd.op.cmd = E4
              /\ Last(respQ').resp.success)
             => IsOutBytes(Last(respQ').resp.data, xdata,
                           workers[w].cmd.op.size)
         ]_vars

\* e4_read of two bytes has returned what the firmware's DMA put there.
C12_Witness ==
    /\ SyncReturned
    /\ sync.op.kind = "vendor_command"
    /\ sync.op.cmd = E4
    /\ sync.res.success
    /\ sync.res.data = << Pattern(USB_DATA_BUFFER), Pattern(USB_DATA_BUFFER + 1) >>

\* sync.op is a vendor read of one byte that immediately follows a vendor
\* write of value v to the same address; both calls succeeded.
ReadAfterWrite(v) ==
    /\ SyncReturned
    /\ sync.op = Vendor(E4, sync.op.addr, 0, 1)
    /\ sync.res.success
    /\ sync.prev.ok
    /\ sync.prev.op = Vendor(E5, sync.op.addr, v, 1)

\* C13 as stated: against the stub firmware, for every address and value, a
\* successful vendor write followed at once by a successful one-byte vendor
\* read of the same address returns the value written.
C13_RoundTrip ==
    \A v \in RTValues : ReadAfterWrite(v) => sync.res.data = << v >>

\* C13 amended: the same, for every address that inject_vendor_command does
\* not itself write.
C13_RoundTripOutsideStaging ==
    \A v \in RTValues :
        ReadAfterWrite(v) /\ sync.op.addr \notin VCXAddrs
        => sync.res.data = << v >>

C13_Witness ==
    /\ ReadAfterWrite(\h55)
    /\ sync.op.addr = \h0100
    /\ sync.res.data = << \h55 >>

\* The facade is Stopped: _running is False and there is no thread handle.
Stopped == ~thr.running /\ thr.thread = 0 /\ thr.ctl = "idle"

\* C14: stop() always returns with the facade Stopped, and a stop() called
\* on a Stopped facade (a second stop(), or stop() before any start())
\* returns at once and changes nothing of the facade, the queues, the
\* workers or the emulator.
C14_StopIdempotent ==
    [][/\ Stop => ~thr'.running
       /\ (thr.ctl = "stop_join" /\ thr'.ctl # "stop_join") => Stopped'
       /\ (Stop /\ Stopped) =>
             /\ Stopped'
             /\ UNCHANGED << hwvars, workers, cmdQ, respQ, callers >>
      ]_vars

\* stop() has been called twice in a row after a start().
C14_Witness == Stopped /\ thr.stops = 2 /\ thr.spawned >= 1

\* Caller 1 waits for the result of a command it submitted after start()
\* had started a worker for the second time.
WaitsAfterRestart == callers[1].pc = "wait" /\ Restarted

\* C15: a start() on a stopped facade starts a worker; a command submitted
\* after the second start() is answered with its own result, unless stop()
\* is called again or the emulator halts and ends the workers first.
C15_RestartServes ==
    /\ [][(Start /\ ~thr.running) =>
             thr'.running /\ workers'[thr'.thread].pc = "loop"]_vars
    /\ [][(Gets(1) /\ Restarted) =>
             Head(respQ).id = callers[1].id]_vars
    /\ [](WaitsAfterRestart =>
             <>(\/ callers[1].pc = "idle"
                \/ ~thr.running
                \/ \A w \in 1..MaxWorkers : ~Alive(w)))

\* After start(); stop(); start() the second worker has answered a command
\* submitted after the second start() and the caller has taken the result.
C15_Witness ==
    /\ thr.spawned = 2
    /\ thr.running
    /\ workers[1].pc = "exited"
    /\ Alive(2)
    /\ callers[1].pc = "idle"
    /\ callers[1].id = 1

\* C16 as stated: once the worker has stopped, start() is not left waiting:
\* whenever start() waits and no worker thread is alive, the test that ends
\* its wait (connected, or _running cleared) holds.
C16_StartReturns ==
    (thr.ctl = "start_wait" /\ \A w \in 1..MaxWorkers : ~Alive(w))
    => (hw.usb_connected \/ ~thr.running)

\* A caller's call ends / a caller submits a command.
CallEnds(c) == callers[c].pc = "wait" /\ callers'[c].pc = "idle"
Submits(c) == callers[c].pc = "idle" /\ callers'[c].pc = "wait"

\* C17 as stated: a threaded operation always ends by handing its caller a
\* result value, also when no response arrives within the outer timeout:
\* every step that ends a call delivers a USBResponse to the caller.
C17_CallEndsWithResult ==
    [][\A c \in 1..NCallers : CallEnds(c) => Gets(c)]_vars

\* C18 as stated: an operation submitted while the facade is Stopped after
\* a stop() is refused: its command is not put on the command queue.
C18_StoppedSubmissionRefused ==
    [][\A c \in 1..NCallers :
          (Submits(c) /\ Stopped /\ thr.stops >= 1) => cmdQ' = cmdQ]_vars

\* The setup/command staging locations, and what the injection of op leaves
\* in them on an emulator whose registers and buffers are all zero.
StagingRegs == \h9E00..\h9E07

StagedRegs(op) ==
    LET blank == [a \in RegAddrs |-> 0]
    IN  IF op.kind = "control_transfer" THEN CTRegs(blank, op)
        ELSE VCRegs(blank, op)

StagedEp0(op) ==
    LET blank == [i \in 0..7 |-> 0]
    IN  IF op.kind = "control_transfer" THEN CTEp0(blank, op)
        ELSE VCEp(blank, op)

\* C19 as stated: when a transaction is injected on the synchronous facade
\* while an earlier one is still active, registers 0x9E00-0x9E07 and the ep0
\* buffer afterwards hold only what the new transaction puts there.
C19_SecondInjectionClean ==
    [][(sync.pc = "idle" /\ sync'.pc = "poll" /\ ~Completed(hw))
       => /\ \A a \in StagingRegs : regs'[a] = StagedRegs(sync'.op)[a]
          /\ ep0_buf' = StagedEp0(sync'.op)
      ]_vars

\* C20 as stated: for the same firmware behaviour, the same operation and
\* the same cycle budget, the threaded facade returns the same success flag
\* and the same payload as the synchronous facade.
C20_ThreadedMirrorsSync ==
    (sync.nops = 1 /\ Len(respQ) = 1)
    => /\ respQ[1].resp.success = sync.res.success
       /\ respQ[1].resp.data = sync.res.data

\* The responses on the queue belong to different commands.
OneResultEach ==
    \A i, j \in 1..Len(respQ) : i < j => respQ[i].id # respQ[j].id

StoppedInFlight(w) == workers[w].pc = "poll" /\ ~thr'.running

\* C22 as stated: a stop() issued while a transaction is in flight does not
\* abort it: the worker keeps its command and keeps stepping until the
\* polled flags are clear or the inner budget is used up, and then puts the
\* result on the queue.
C22_StopDoesNotCancel ==
    [][\A w \in 1..MaxWorkers :
          StoppedInFlight(w) =>
             (\/ workers'[w] = workers[w] /\ respQ' = respQ
              \/ /\ Enqueues(w)
                 /\ Len(respQ') = Len(respQ) + 1
                 /\ Last(respQ').id = workers[w].cmd.id
                 /\ \/ PolledFlagsClear(hw, workers[w].cmd.op)
                    \/ ~InBudget(hw, workers[w].start,
                                 workers[w].cmd.timeout))
      ]_vars

\* C22 amended: a stop() issued while a transaction is in flight does not
\* abort it: the worker keeps its command and keeps stepping until the
\* polled flags are clear, the inner budget is used up, or step() reports a
\* halt, and then puts the result on the queue; the result does arrive.
C22_StopDoesNotCancelLoop ==
    /\ [][\A w \in 1..MaxWorkers :
             StoppedInFlight(w) =>
                (\/ workers'[w] = workers[w] /\ respQ' = respQ
                 \/ /\ Enqueues(w)
                    /\ Len(respQ') = Len(respQ) + 1
                    /\ Last(respQ').id = workers[w].cmd.id
                    /\ LET e == Last(respQ')
                           wk == workers[w]
                       IN  /\ e.why \in {"cleared", "budget", "halt"}
                           /\ (e.why = "cleared")
                                 => PolledFlagsClear(hw, wk.cmd.op)
                           /\ (e.why = "budget")
                                 => ~InBudget(hw, wk.start, wk.cmd.timeout)
                           /\ (e.why = "halt")
                                 => /\ InBudget(hw, wk.start, wk.cmd.timeout)
                                    /\ ~PolledFlagsClear(hw, wk.cmd.op))
         ]_vars
    /\ \A w \in 1..MaxWorkers, id \in 1..MaxCmds :
          (workers[w].pc = "poll" /\ workers[w].cmd.id = id /\ ~thr.running)
          ~> (\E i \in 1..Len(respQ) : respQ[i].id = id)

\* stop() has returned from a join that timed out on a worker inside the
\* loop, and that worker has since put its response, the flags being clear.
C22_Witness ==
    /\ Stopped
    /\ thr.stops >= 1
    /\ \E w \in 1..MaxWorkers :
          /\ workers[w].pc = "step"
          /\ respQ # << >>
          /\ Last(respQ).why = "cleared"

\* The setup packet of GET_DESCRIPTOR: 0x80, 0x06, index, type, wIndex 0,
\* length low and high.
DescriptorPacket(t, i, l) == << \h80, 6, i, t, 0, 0, l % 256, l \div 256 >>

\* C23: get_descriptor(type, index, length) is control_transfer with
\* request type 0x80, request 0x06, value (type << 8) | index, index 0 and
\* the given length, on both facades: the step it takes is the step of that
\* control_transfer (same injection and staged setup packet on the
\* synchronous facade, same queued command on the threaded one), so what
\* follows, and the result, are the same.
C23_GetDescriptorIsControlTransfer ==
    [][\A t \in DescTypes, i \in DescIndexes, l \in DescLengths :
          /\ \A max \in ThreadBudgets :
                SyncGetDescriptor(t, i, l, max) =>
                   /\ SyncCall(Transfer(\h80, 6, t * 256 + i, 0, l), max)
                   /\ \A k \in 0..7 :
                         /\ regs'[\h9E00 + k] = DescriptorPacket(t, i, l)[k + 1]
                         /\ ep0_buf'[k] = DescriptorPacket(t, i, l)[k + 1]
          /\ \A b \in ThreadBudgets :
                ThreadedGetDescriptor(1, t, i, l, b) =>
                   /\ CPut(1, Transfer(\h80, 6, t * 256 + i, 0, l), b)
                   /\ to_setup_packet(Last(cmdQ').op)
                         = DescriptorPacket(t, i, l)
      ]_vars

\* get_descriptor(STRING, 1, 300) on the synchronous facade has returned
\* 256 bytes with success.
C23_Witness ==
    /\ sync.pc = "idle"
    /\ sync.nops >= 1
    /\ sync.op = get_descriptor(3, 1, 300)
    /\ sync.res.success
    /\ Len(sync.res.data) = OutCap

\* C24 as stated: on both facades and for every budget, 0 included, a
\* result that reports success was preceded by at least one step() of the
\* emulator made after that transaction's injection.
C24_SuccessAfterStep ==
    /\ [](SyncReturned /\ sync.res.success => sync.steps >= 1)
    /\ [][\A w \in 1..MaxWorkers :
             (/\ Enqueues(w)
              /\ Len(respQ') = Len(respQ) + 1
              /\ Last(respQ').resp.success)
             => \/ hw.cycles > workers[w].start
                \/ Last(respQ').why = "halt"
         ]_vars

\* C25 as stated: on both facades and for both kinds of transaction, the
\* poller declares the transaction complete (wait_for_response returns
\* success; _process_command's loop ends on its flag test) only when
\* usb_control_transfer_active and usb_cmd_pending are both false.
C25_CompleteOnlyWhenBothClear ==
    /\ [](SyncReturned /\ sync.res.success => Completed(hw))
    /\ [][\A w \in 1..MaxWorkers :
             (/\ Enqueues(w)
              /\ Len(respQ') = Len(respQ) + 1
              /\ Last(respQ').why = "cleared")
             => Completed(hw)
         ]_vars

\* C26 as stated: when wait_for_response has returned 'Transfer timeout',
\* usb_control_transfer_active and usb_cmd_pending are both false.
C26_TimeoutClearsFlags ==
    (SyncReturned /\ sync.res.error = "Transfer timeout") => Completed(hw)

\* A step in which inject_control_transfer runs on the synchronous facade.
InjectsTransfer ==
    /\ sync.pc = "idle"
    /\ sync'.pc = "poll"
    /\ sync'.op.kind = "control_transfer"

\* C27: inject_control_transfer of a transfer of length L zeroes the first
\* min(L, 256) bytes of the output region at 0x8000 and leaves every byte of
\* the region at an offset of min(L, 256) or more as it was.
C27_ClearsRequestedPrefix ==
    [][InjectsTransfer =>
          \A a \in OutAddrs :
             xdata'[a] = IF a - USB_DATA_BUFFER < Min(sync'.op.wLength, 256)
                         THEN 0 ELSE xdata[a]
      ]_vars

\* A transfer of length 2 has just been injected over an output region the
\* firmware had filled: two zero bytes, then the old contents.
C27_Witness ==
    /\ sync.pc = "poll"
    /\ sync.steps = 0
    /\ sync.op.kind = "control_transfer"
    /\ sync.op.wLength = 2
    /\ xdata[USB_DATA_BUFFER] = 0
    /\ xdata[USB_DATA_BUFFER + 1] = 0
    /\ \A a \in OutAddrs : a >= USB_DATA_BUFFER + 2 => xdata[a] = Pattern(a)

\* The eight bytes of a transfer's setup packet, multi-byte fields low byte
\* first.
SetupBytes(t) ==
    << t.bmRequestType, t.bRequest, t.wValue % 256, t.wValue \div 256,
       t.wIndex % 256, t.wIndex \div 256, t.wLength % 256,
       t.wLength \div 256 >>

\* C28: after inject_control_transfer, registers 0x9E00-0x9E07 and bytes
\* 0-7 of the ep0 buffer both hold the transfer's 8-byte setup packet,
\* whatever they held before.
C28_SetupPacketStaged ==
    [][InjectsTransfer =>
          \A k \in 0..7 :
             /\ regs'[\h9E00 + k] = SetupBytes(sync'.op)[k + 1]
             /\ ep0_buf'[k] = SetupBytes(sync'.op)[k + 1]
      ]_vars

\* A transfer of length 300 has just been injected after a vendor command
\* had staged its own bytes: the staging registers and the ep0 buffer hold
\* 80 06 00 02 00 00 2C 01.
C28_Witness ==
    /\ sync.pc = "poll"
    /\ sync.steps = 0
    /\ sync.nops = 2
    /\ sync.prev.op.kind = "vendor_command"
    /\ sync.op = Transfer(\h80, 6, \h0200, 0, 300)
    /\ \A k \in 0..7 :
          /\ regs[\h9E00 + k] = << \h80, 6, 0, 2, 0, 0, \h2C, 1 >>[k + 1]
          /\ ep0_buf[k] = << \h80, 6, 0, 2, 0, 0, \h2C, 1 >>[k + 1]

\* Registers 0x9101 and 0x9301 after the injection of t in the registers r.
StatusRegs(r, t) == << CTRegs(r, t)[\h9101], CTRegs(r, t)[\h9301] >>

\* The same transfer with another request-type byte.
Retyped(t, rt) == [t EXCEPT !.bmRequestType = rt]

\* C29 as stated: injected from the same prior state, a standard, a class
\* and a vendor request leave pairwise different values in the status
\* registers 0x9101, 0x9301.
C29_DistinctPerClass ==
    [][InjectsTransfer =>
          \A rt \in RequestTypes :
             (And60(rt) # And60(sync'.op.bmRequestType))
             => StatusRegs(regs, Retyped(sync'.op, rt))
                   # << regs'[\h9101], regs'[\h9301] >>
      ]_vars

\* C29 amended: a standard and a class request both leave 0x9101 = 0x0B and
\* 0x9301 = 0x40; a vendor request leaves 0x9101 = 0x21 and 0x9301 as it
\* was; so a vendor request differs in 0x9101 from the two others injected
\* from the same prior state.
C29_VendorDistinct ==
    [][InjectsTransfer =>
          LET cls == And60(sync'.op.bmRequestType)
          IN  /\ (cls \in {\h00, \h20})
                    => regs'[\h9101] = \h0B /\ regs'[\h9301] = \h40
              /\ (cls = \h40)
                    => regs'[\h9101] = \h21 /\ regs'[\h9301] = regs[\h9301]
              /\ \A rt \in RequestTypes :
                    ((cls = \h40) # (And60(rt) = \h40))
                    => StatusRegs(regs, Retyped(sync'.op, rt))[1]
                          # regs'[\h9101]
      ]_vars

\* A class request has just been injected after a vendor request: 0x9101
\* and 0x9301 hold what a standard request would leave.
C29_Witness ==
    /\ sync.pc = "poll"
    /\ sync.steps = 0
    /\ sync.nops = 2
    /\ sync.op.kind = "control_transfer"
    /\ And60(sync.op.bmRequestType) = \h20
    /\ And60(sync.prev.op.bmRequestType) = \h40
    /\ regs[\h9101] = \h0B
    /\ regs[\h9301] = \h40

\* C30: immediately after inject_control_transfer,
\* usb_control_transfer_active, usb_cmd_pending and _pending_usb_interrupt
\* are all true.
C30_InjectionRaisesFlags ==
    [][InjectsTransfer =>
          /\ hw'.usb_control_transfer_active
          /\ hw'.usb_cmd_pending
          /\ hw'.pending_usb_interrupt
      ]_vars

\* A second transfer has just been injected after the first had completed
\* with success (both completion flags false): the three flags are true.
C30_Witness ==
    /\ sync.pc = "poll"
    /\ sync.steps = 0
    /\ sync.nops = 2
    /\ sync.op.kind = "control_transfer"
    /\ sync.prev.ok
    /\ hw.usb_control_transfer_active
    /\ hw.usb_cmd_pending
    /\ hw.pending_usb_interrupt

\* A step in which inject_vendor_command runs on the synchronous facade.
InjectsVendor ==
    /\ sync.pc = "idle"
    /\ sync'.pc = "poll"
    /\ sync'.op.kind = "vendor_command"

\* The command block as the claim describes it: opcode, size or value, the
\* three bytes of ((address mod 2^17) | 0x500000) high byte first, zero.
CommandBlock(c) ==
    << c.cmd, IF c.cmd = E4 THEN c.size ELSE c.value,
       \h50 + ((c.addr \div 65536) % 2), (c.addr \div 256) % 256,
       c.addr % 256, 0 >>

\* C31: for every address and every 8-bit size or value,
\* inject_vendor_command builds the block [opcode, size (0xE4) or value
\* (0xE5), byte2, byte1, byte0, 0] of the tagged address
\* (address mod 2^17) | 0x500000; address bits above bit 16 do not affect
\* the block.  The block is read where the injection puts it first,
\* registers 0x910D-0x9112.
C31_CommandBlock ==
    [][InjectsVendor =>
          /\ \A k \in 0..5 : regs'[\h910D + k] = CommandBlock(sync'.op)[k + 1]
          /\ cdb(sync'.op) = cdb([sync'.op EXCEPT !.addr = @ % \h20000])
      ]_vars

\* e4_read(0x20100, size=255) has just been injected: the block is
\* E4 FF 50 01 00 00, bit 17 of the address being dropped.
C31_Witness ==
    /\ sync.pc = "poll"
    /\ sync.steps = 0
    /\ sync.op = Vendor(E4, \h20100, 0, 255)
    /\ \A k \in 0..5 :
          regs[\h910D + k] = << E4, 255, \h50, 1, 0, 0 >>[k + 1]

\* C32 as stated: after inject_vendor_command, registers 0x910D-0x9112,
\* usb_ep_data_buf[0..5], usb_ep0_buf[0..5] and scratch memory
\* 0x0002-0x0007 all hold the same 6-byte command block.
C32_BlockReplicated ==
    [][InjectsVendor =>
          \A k \in 0..5 :
             /\ ep_data_buf'[k] = regs'[\h910D + k]
             /\ ep0_buf'[k] = regs'[\h910D + k]
             /\ xdata'[\h0002 + k] = regs'[\h910D + k]
      ]_vars

\* C32 amended: after inject_vendor_command, registers 0x910D-0x9112,
\* usb_ep_data_buf[0..5] and usb_ep0_buf[0..5] hold the command block, and
\* scratch memory 0x0002-0x0007 holds it except for 0x0003, which holds the
\* vendor command flag 0x08 in place of the size or value byte.
C32_BlockReplicatedButFlag ==
    [][InjectsVendor =>
          \A k \in 0..5 :
             /\ regs'[\h910D + k] = CommandBlock(sync'.op)[k + 1]
             /\ ep_data_buf'[k] = CommandBlock(sync'.op)[k + 1]
             /\ ep0_buf'[k] = CommandBlock(sync'.op)[k + 1]
             /\ xdata'[\h0002 + k] =
                   IF k = 1 THEN 8 ELSE CommandBlock(sync'.op)[k + 1]
      ]_vars

\* e5_write(0x0100, 0x55) has just been injected: the registers and both
\* endpoint buffers hold E5 55 50 01 00 00, the scratch copy E5 08 50 01 00 00.
C32_Witness ==
    /\ sync.pc = "poll"
    /\ sync.steps = 0
    /\ sync.op = Vendor(E5, \h0100, \h55, 1)
    /\ regs[\h910E] = \h55
    /\ ep_data_buf[1] = \h55
    /\ ep0_buf[1] = \h55
    /\ xdata[\h0003] = 8
    /\ xdata[\h0002] = E5

\* C33: after any inject_vendor_command of a read (0xE4) or a write (0xE5),
\* whatever the state before and whatever was injected earlier, the scratch
\* flags are 0x07EC = 0, 0x05A5 = 1, 0x05A3 = 0, and both slot markers
\* 0x05B1 and 0x05D3 are 4 for a read and 5 for a write.
C33_ScratchFlags ==
    [][(InjectsVendor /\ sync'.op.cmd \in {E4, E5}) =>
          LET marker == IF sync'.op.cmd = E4 THEN 4 ELSE 5
          IN  /\ xdata'[\h07EC] = 0
              /\ xdata'[\h05A5] = 1
              /\ xdata'[\h05A3] = 0
              /\ xdata'[\h05B1] = marker
              /\ xdata'[\h05D3] = marker
      ]_vars

\* A read has just been injected after a write: both markers are 4.
C33_Witness ==
    /\ sync.pc = "poll"
    /\ sync.steps = 0
    /\ sync.nops = 2
    /\ sync.op.kind = "vendor_command"
    /\ sync.op.cmd = E4
    /\ sync.prev.op.kind = "vendor_command"
    /\ sync.prev.op.cmd = E5
    /\ xdata[\h05B1] = 4
    /\ xdata[\h05D3] = 4
    /\ xdata[\h05A5] = 1

\* C34: after every inject_vendor_command the CPU's in_interrupt latch is
\* false and _pending_usb_interrupt and usb_cmd_pending are true, whatever
\* the latch was before.
C34_InterruptRearmed ==
    [][InjectsVendor =>
          /\ ~hw'.in_interrupt
          /\ hw'.pending_usb_interrupt
          /\ hw'.usb_cmd_pending
      ]_vars

\* A vendor command has just been injected while the latch was still set by
\* the interrupt of the previous command: the latch is clear again.
C34_Witness ==
    /\ sync.pc = "poll"
    /\ sync.steps = 0
    /\ sync.nops = 2
    /\ sync.op.kind = "vendor_command"
    /\ sync.prev.op.kind = "vendor_command"
    /\ sync.prev.latch
    /\ ~hw.in_interrupt
    /\ hw.pending_usb_interrupt
    /\ hw.usb_cmd_pending

\* C35: wait_for_response never returns success with cycles_taken at or
\* above max_cycles, every 'Transfer timeout' has cycles_taken at or above
\* max_cycles, and a completion seen on the step that brings the cycle count
\* up to the budget is reported as a timeout.
C35_TimeoutAtOrAboveBudget ==
    SyncReturned =>
       /\ sync.res.success => sync.res.cycles_taken < sync.max
       /\ (sync.res.error = "Transfer timeout")
             => sync.res.cycles_taken >= sync.max
       /\ (sync.ended = "break" /\ hw.cycles - sync.start >= sync.max)
             => /\ ~sync.res.success
                /\ sync.res.error = "Transfer timeout"

\* The loop ended on the flag test with both flags clear, on the step that
\* used up the budget, and the result is a timeout.
C35_Witness ==
    /\ SyncReturned
    /\ sync.ended = "break"
    /\ Completed(hw)
    /\ sync.max > 0
    /\ sync.res.cycles_taken = sync.max
    /\ sync.res.error = "Transfer timeout"

\* C36: inject_vendor_command leaves the output region (0x8000 onward),
\* usb_control_transfer_active and the facade's _pending_transfer as they
\* were; so a vendor command injected on the synchronous facade while
\* usb_control_transfer_active is still true is not reported complete
\* before the firmware has cleared that flag as well.
C36_VendorInjectionFrame ==
    /\ [][InjectsVendor =>
             /\ \A a \in OutAddrs : xdata'[a] = xdata[a]
             /\ hw'.usb_control_transfer_active
                   = hw.usb_control_transfer_active
             /\ sync'.pending_transfer = sync.pending_transfer
         ]_vars
    /\ []((/\ SyncReturned
           /\ sync.op.kind = "vendor_command"
           /\ sync.res.success)
          => ~hw.usb_control_transfer_active)

\* A vendor command injected after a control transfer that had timed out
\* has returned a timeout itself: the firmware cleared usb_cmd_pending but
\* usb_control_transfer_active is still true, and the remembered transfer
\* is still the earlier one.
C36_Witness ==
    /\ SyncReturned
    /\ sync.nops = 2
    /\ sync.op.kind = "vendor_command"
    /\ sync.prev.op.kind = "control_transfer"
    /\ ~sync.prev.ok
    /\ sync.pending_transfer = sync.prev.op
    /\ sync.steps >= 1
    /\ ~hw.usb_cmd_pending
    /\ hw.usb_control_transfer_active
    /\ ~sync.res.success

\* C37 as stated: whenever the worker thread of the facade (the one
\* _thread refers to) has exited, _running is false, also when the worker
\* exited because step() reported a halt.
C37_ExitedMeansStopped ==
    (thr.thread # 0 /\ workers[thr.thread].pc = "exited") => ~thr.running

\* The command numbered id is on the command queue / its response is on
\* the response queue.
Queued(id) == \E i \in 1..Len(cmdQ) : cmdQ[i].id = id
Answered(id) == \E i \in 1..Len(respQ) : respQ[i].id = id

\* C38: on an emulator that never halts and whose every step advances the
\* cycle counter, with the worker scheduled fairly, every command on the
\* command queue of a Running facade is eventually dequeued and its result
\* eventually put on the response queue, unless the facade stops being
\* Running.
C38_RunningServes ==
    \A id \in 1..MaxCmds :
       /\ (thr.running /\ Queued(id)) ~> (~Queued(id) \/ ~thr.running)
       /\ (thr.running /\ Queued(id)) ~> (Answered(id) \/ ~thr.running)

\* On a facade that has been Running since its start(), the second command
\* has been answered after its budget ran out.
C38_Witness ==
    /\ thr.running
    /\ thr.stops = 0
    /\ thr.spawned = 1
    /\ Answered(2)
    /\ Last(respQ).why = "budget"
    /\ Last(respQ).resp.cycles_taken = RunBudget

\* The three outcomes of wait_for_response.
OutcomeSuccess == sync.res.success /\ sync.res.error = ""
OutcomeHalted == ~sync.res.success /\ sync.res.error = "Emulator halted"
OutcomeTimeout == ~sync.res.success /\ sync.res.error = "Transfer timeout"

\* C39: when every successful step() advances the cycle counter by at least
\* one, wait_for_response terminates for every budget: it returns after at
\* most max_cycles calls of step(), with exactly one of success, 'Emulator
\* halted' and 'Transfer timeout'.
C39_WaitTerminates ==
    /\ [](SyncReturned =>
            /\ sync.steps <= sync.max
            /\ OutcomeSuccess \/ OutcomeHalted \/ OutcomeTimeout
            /\ ~(OutcomeSuccess /\ OutcomeHalted)
            /\ ~(OutcomeSuccess /\ OutcomeTimeout)
            /\ ~(OutcomeHalted /\ OutcomeTimeout))
    /\ (sync.pc # "idle") ~> SyncReturned

\* A wait with budget 3 has returned a timeout after three steps.
C39_Witness ==
    /\ SyncReturned
    /\ sync.max = 3
    /\ sync.steps = 3
    /\ OutcomeTimeout

====
